---------------------------- MODULE Spec2Model ----------------------------
(***************************************************************************)
(* whynot: a grammar of named, weighted collections of text values, some   *)
(* of which embed <name> references to other collections.                  *)
(*                                                                         *)
(* The model follows src/whynot/config.py (the line parser and             *)
(* Config.from_string), src/whynot/refs.py (ReferenceCollection.format,    *)
(* Reference and ReferenceFormat), src/whynot/weight.py (the weighted      *)
(* pool and RandomString.__str__) and src/whynot/__init__.py (Why).        *)
(*                                                                         *)
(* A string is a sequence of one-character strings.  The source text is    *)
(* read as text.split("\n") reads it: a non-empty sequence of lines, the   *)
(* last of which is empty exactly when the text ends with a newline.       *)
(***************************************************************************)
EXTENDS Integers, Sequences, FiniteSets, TLC

(***************************************************************************)
(* Bounds of the model.                                                    *)
(***************************************************************************)
\* the number of lines of the source text
MaxLines == 4
\* the number of calls of Why.__call__ on one built grammar
MaxCalls == 1
\* the interpreter's recursion limit, counted in nested RandomString.__str__
MaxDepth == 2

(***************************************************************************)
(* Characters.                                                             *)
(***************************************************************************)
Digits == {"0", "1", "2", "3", "4", "5", "6", "7", "8", "9"}

Letters == {"a", "b", "c", "s", "x", "y"}

\* RE_SECTION_NAME: [-_a-zA-Z0-9]
IsNameChar(c) == c \in Letters \cup Digits \cup {"-", "_"}

\* the characters pyparsing skips before every token, and str.strip() strips
IsWhite(c) == c = " "

DigitValue(c) ==
    CASE c = "0" -> 0 [] c = "1" -> 1 [] c = "2" -> 2 [] c = "3" -> 3
      [] c = "4" -> 4 [] c = "5" -> 5 [] c = "6" -> 6 [] c = "7" -> 7
      [] c = "8" -> 8 [] c = "9" -> 9

DigitChar(n) ==
    CASE n = 0 -> "0" [] n = 1 -> "1" [] n = 2 -> "2" [] n = 3 -> "3"
      [] n = 4 -> "4" [] n = 5 -> "5" [] n = 6 -> "6" [] n = 7 -> "7"
      [] n = 8 -> "8" [] n = 9 -> "9"

\* int(t[0]) of a run of decimal digits
RECURSIVE IntOf(_)
IntOf(ds) ==
    IF Len(ds) = 0 THEN 0
    ELSE 10 * IntOf(SubSeq(ds, 1, Len(ds) - 1)) + DigitValue(ds[Len(ds)])

\* "{:d}".format(n) for n >= 0
RECURSIVE Decimal(_)
Decimal(n) ==
    IF n < 10 THEN <<DigitChar(n)>>
    ELSE Append(Decimal(n \div 10), DigitChar(n % 10))

None == <<>>

(***************************************************************************)
(* The line grammar (pyparsing).  Every token skips leading whitespace,    *)
(* and parseString accepts a match of a prefix of the line.                *)
(***************************************************************************)
\* the first index >= i of s that holds no whitespace (Len(s) + 1 if none)
SkipWhite(s, i) ==
    CHOOSE j \in i..(Len(s) + 1) :
        /\ \A k \in i..(j - 1) : IsWhite(s[k])
        /\ j = Len(s) + 1 \/ ~IsWhite(s[j])

\* the end (exclusive) of the longest run of name characters of s from i
NameEnd(s, i) ==
    CHOOSE j \in i..(Len(s) + 1) :
        /\ \A k \in i..(j - 1) : IsNameChar(s[k])
        /\ j = Len(s) + 1 \/ ~IsNameChar(s[j])

\* the end (exclusive) of the longest run of digits of s from i
DigitsEnd(s, i) ==
    CHOOSE j \in i..(Len(s) + 1) :
        /\ \A k \in i..(j - 1) : s[k] \in Digits
        /\ j = Len(s) + 1 \/ s[j] \notin Digits

NoMatch == [matched |-> FALSE, end |-> 0, kind |-> "none",
            section |-> None, weight |-> 0, value |-> <<>>]

\* Suppress("#") + Regex(r".*$")
COMMENT_LINE(s) ==
    LET i == SkipWhite(s, 1)
    IN  IF i <= Len(s) /\ s[i] = "#"
        THEN [NoMatch EXCEPT !.matched = TRUE, !.end = Len(s) + 1,
                             !.kind = "comment"]
        ELSE NoMatch

\* Suppress("[") + Regex(RE_SECTION_NAME.pattern) + Suppress("]")
SECTION_LINE(s) ==
    LET i == SkipWhite(s, 1)
        j == SkipWhite(s, i + 1)
        k == NameEnd(s, j)
        m == SkipWhite(s, k)
    IN  IF /\ i <= Len(s) /\ s[i] = "["
           /\ j <= Len(s) /\ k > j
           /\ m <= Len(s) /\ s[m] = "]"
        THEN [NoMatch EXCEPT !.matched = TRUE, !.end = m + 1,
                             !.kind = "section",
                             !.section = SubSeq(s, j, k - 1)]
        ELSE NoMatch

\* a value line whose value may be empty: Regex(r".*")
VALUE_LINE_star(s) ==
    LET i == SkipWhite(s, 1)
        k == DigitsEnd(s, i)
        m == SkipWhite(s, k)
        v == SkipWhite(s, m + 1)
    IN  IF /\ i <= Len(s) /\ k > i
           /\ m <= Len(s) /\ s[m] = ":"
        THEN [NoMatch EXCEPT !.matched = TRUE, !.end = Len(s) + 1,
                             !.kind = "value",
                             !.weight = IntOf(SubSeq(s, i, k - 1)),
                             !.value = SubSeq(s, v, Len(s))]
        ELSE NoMatch

\* Word(nums) (as int) + Suppress(":") + Regex(r".+")
VALUE_LINE(s) ==
    LET i == SkipWhite(s, 1)
        k == DigitsEnd(s, i)
        m == SkipWhite(s, k)
        v == SkipWhite(s, m + 1)
    IN  IF /\ i <= Len(s) /\ k > i
           /\ m <= Len(s) /\ s[m] = ":"
           /\ v <= Len(s)
        THEN [NoMatch EXCEPT !.matched = TRUE, !.end = Len(s) + 1,
                             !.kind = "value",
                             !.weight = IntOf(SubSeq(s, i, k - 1)),
                             !.value = SubSeq(s, v, Len(s))]
        ELSE NoMatch

\* COMMENT_LINE ^ SECTION_LINE ^ VALUE_LINE: the longest match, the first
\* of the longest; no match is a ParseException
CONFIG_LINE(s) ==
    LET alts == <<COMMENT_LINE(s), SECTION_LINE(s), VALUE_LINE(s)>>
        best == CHOOSE i \in 1..3 :
                    /\ \A j \in 1..3 : alts[j].end <= alts[i].end
                    /\ \A j \in 1..(i - 1) : alts[j].end < alts[i].end
    IN  alts[best]

\* not line.strip()
IsBlank(s) == \A i \in 1..Len(s) : IsWhite(s[i])

(***************************************************************************)
(* refs.py: the reference markers of a value text.                         *)
(***************************************************************************)
\* unique(seq): the first occurrence of each element, in order
RECURSIVE unique(_)
unique(seq) ==
    IF Len(seq) = 0 THEN <<>>
    ELSE LET front == unique(SubSeq(seq, 1, Len(seq) - 1))
             last  == seq[Len(seq)]
         IN  IF \E i \in 1..Len(front) : front[i] = last
             THEN front
             ELSE Append(front, last)

\* re.findall(r'<(' + pattern + r')>', s) from index i on: the names of the
\* non-overlapping matches, leftmost first
RECURSIVE FindAll(_, _)
FindAll(s, i) ==
    IF i > Len(s) THEN <<>>
    ELSE IF s[i] = "<"
         THEN LET k == NameEnd(s, i + 1)
              IN  IF k > i + 1 /\ k <= Len(s) /\ s[k] = ">"
                  THEN <<SubSeq(s, i + 1, k - 1)>> \o FindAll(s, k + 1)
                  ELSE FindAll(s, i + 1)
         ELSE FindAll(s, i + 1)

\* s.replace(old, new), old not empty
RECURSIVE Replace(_, _, _)
Replace(s, old, new) ==
    IF Len(s) < Len(old) THEN s
    ELSE IF SubSeq(s, 1, Len(old)) = old
         THEN new \o Replace(SubSeq(s, Len(old) + 1, Len(s)), old, new)
         ELSE <<s[1]>> \o Replace(Tail(s), old, new)

\* "<{!s}>".format(name)
Marker(name) == <<"<">> \o name \o <<">">>

\* "{{{:d}!s}}".format(idx)
FieldText(idx) == <<"{">> \o Decimal(idx) \o <<"!", "s", "}">>

\* the loop of ReferenceCollection.format over enumerate(replace), from the
\* index idx (0-based) on
RECURSIVE StringFormat(_, _, _)
StringFormat(s, replace, idx) ==
    IF idx >= Len(replace) THEN s
    ELSE StringFormat(Replace(s, Marker(replace[idx + 1]), FieldText(idx)),
                      replace, idx + 1)

(***************************************************************************)
(* str.format: the replacement fields of a format string.  A token is a    *)
(* literal character or a field; a field names the argument it shows and   *)
(* its conversion ("s": str(arg), also what an absent conversion with an   *)
(* empty format_spec does; "r": repr(arg)).  A non-empty format_spec and   *)
(* attribute or item access are not modelled: no line of the model writes  *)
(* ":", "." or "[" inside braces.                                          *)
(***************************************************************************)
Literal(c) == [field |-> FALSE, char |-> c, index |-> 0, conversion |-> "s"]

Field(n, conv) == [field |-> TRUE, char |-> "", index |-> n, conversion |-> conv]

FormatFailure(exc) == [ok |-> FALSE, exc |-> exc, tokens |-> <<>>]

\* the index of the "}" that closes a field opened before i, 0 if none
RECURSIVE MatchBrace(_, _, _)
MatchBrace(s, i, count) ==
    IF i > Len(s) THEN 0
    ELSE IF s[i] = "{" THEN MatchBrace(s, i + 1, count + 1)
    ELSE IF s[i] = "}"
         THEN IF count = 1 THEN i ELSE MatchBrace(s, i + 1, count - 1)
         ELSE MatchBrace(s, i + 1, count)

\* the text between the braces of a field: name, "!" conversion
ParseField(body) ==
    LET p == CHOOSE j \in 1..(Len(body) + 1) :
                 /\ \A k \in 1..(j - 1) : body[k] \notin {"!", ":"}
                 /\ j = Len(body) + 1 \/ body[j] \in {"!", ":"}
        name == SubSeq(body, 1, p - 1)
        rest == SubSeq(body, p, Len(body))
        conv == IF Len(rest) = 0 THEN "s" ELSE rest[2]
        bad  == \/ Len(rest) > 0 /\ rest[1] = ":"
                \/ Len(rest) = 1
                \/ Len(rest) > 2
                \/ Len(rest) = 2 /\ rest[2] \notin {"r", "s"}
    IN  IF bad THEN [ok |-> FALSE, exc |-> "ValueError", auto |-> FALSE,
                     index |-> 0, conversion |-> "s"]
        ELSE IF Len(name) = 0
             THEN [ok |-> TRUE, exc |-> "", auto |-> TRUE, index |-> 0,
                   conversion |-> conv]
        ELSE IF \A k \in 1..Len(name) : name[k] \in Digits
             THEN [ok |-> TRUE, exc |-> "", auto |-> FALSE,
                   index |-> IntOf(name), conversion |-> conv]
        ELSE [ok |-> FALSE, exc |-> "KeyError", auto |-> FALSE, index |-> 0,
              conversion |-> "s"]

\* the markup iterator of str.format from index i on; numbering is "none",
\* "auto" or "manual", next the next automatic index, nargs the number of
\* positional arguments
RECURSIVE FormatTokens(_, _, _, _, _, _)
FormatTokens(s, i, acc, numbering, next, nargs) ==
    IF i > Len(s) THEN [ok |-> TRUE, exc |-> "", tokens |-> acc]
    ELSE IF s[i] \notin {"{", "}"}
         THEN FormatTokens(s, i + 1, Append(acc, Literal(s[i])), numbering,
                           next, nargs)
    ELSE IF i < Len(s) /\ s[i + 1] = s[i]
         THEN FormatTokens(s, i + 2, Append(acc, Literal(s[i])), numbering,
                           next, nargs)
    ELSE IF s[i] = "}" \/ i = Len(s)
         THEN FormatFailure("ValueError")
    ELSE LET e == MatchBrace(s, i + 1, 1)
             f == ParseField(SubSeq(s, i + 1, e - 1))
             n == IF f.auto THEN next ELSE f.index
         IN  IF e = 0 THEN FormatFailure("ValueError")
             ELSE IF ~f.ok THEN FormatFailure(f.exc)
             ELSE IF \/ f.auto /\ numbering = "manual"
                     \/ ~f.auto /\ numbering = "auto"
                  THEN FormatFailure("ValueError")
             ELSE IF n >= nargs THEN FormatFailure("IndexError")
             ELSE FormatTokens(s, e + 1, Append(acc, Field(n, f.conversion)),
                               IF f.auto THEN "auto" ELSE "manual",
                               IF f.auto THEN next + 1 ELSE next, nargs)

\* format_string.format(*args) with nargs arguments: the tokens, or the
\* exception format raises
ParseFormat(format_string, nargs) ==
    FormatTokens(format_string, 1, <<>>, "none", 0, nargs)

(***************************************************************************)
(* Values of a collection: a plain string, a Reference, a ReferenceFormat. *)
(***************************************************************************)
PlainString(text) == [kind |-> "str", text |-> text, refs |-> <<>>]

Reference(key) == [kind |-> "Reference", text |-> <<>>, refs |-> <<key>>]

ReferenceFormat(format_string, substitutions) ==
    [kind |-> "ReferenceFormat", text |-> format_string,
     refs |-> substitutions]

\* ReferenceFormat.__init__ validates the format string by formatting
\* len(substitutions) test strings
ReferenceFormatInit(format_string, substitutions) ==
    ParseFormat(format_string, Len(substitutions))

\* a format that returns the Reference of a bare marker without looking it
\* up in the registry
Format_unregistered(raw_text) ==
    LET refnames == FindAll(raw_text, 1)
        replace  == unique(refnames)
        string_format == StringFormat(raw_text, replace, 0)
        init == ReferenceFormatInit(string_format, replace)
    IN  IF Len(refnames) < 1
        THEN [raised |-> FALSE, exc |-> "", value |-> PlainString(raw_text),
              looked_up |-> {}]
        ELSE IF raw_text = Marker(refnames[1])
        THEN [raised |-> FALSE, exc |-> "",
              value |-> Reference(refnames[1]),
              looked_up |-> {}]
        ELSE [raised |-> ~init.ok, exc |-> init.exc,
              value |-> ReferenceFormat(string_format, replace),
              looked_up |-> {replace[i] : i \in 1..Len(replace)}]

\* ReferenceCollection.format(raw_text, pattern=RE_SECTION_NAME.pattern):
\* the value, the names looked up in the registry (self[name]), and the
\* exception ReferenceFormat.__init__ raises, if any
Format(raw_text) ==
    LET refnames == FindAll(raw_text, 1)
        replace  == unique(refnames)
        string_format == StringFormat(raw_text, replace, 0)
        init == ReferenceFormatInit(string_format, replace)
    IN  IF Len(refnames) < 1
        THEN [raised |-> FALSE, exc |-> "", value |-> PlainString(raw_text),
              looked_up |-> {}]
        ELSE IF raw_text = Marker(refnames[1])
        THEN [raised |-> FALSE, exc |-> "",
              value |-> Reference(refnames[1]),
              looked_up |-> {refnames[1]}]
        ELSE [raised |-> ~init.ok, exc |-> init.exc,
              value |-> ReferenceFormat(string_format, replace),
              looked_up |-> {replace[i] : i \in 1..Len(replace)}]

(***************************************************************************)
(* weight.py: a collection is the list of its WeightedItems.               *)
(***************************************************************************)
WeightedItem(value, weight) == [weight |-> weight, value |-> value]

\* WeightedCollection.add
add(items, value, weight) == Append(items, WeightedItem(value, weight))

\* WeightedCollection.__len__: the sum of the weights
RECURSIVE Length(_)
Length(items) ==
    IF Len(items) = 0 THEN 0
    ELSE Length(SubSeq(items, 1, Len(items) - 1)) + items[Len(items)].weight

\* a pool that lists the items newest first
RECURSIVE Expand_newest_first(_)
Expand_newest_first(items) ==
    IF Len(items) = 0 THEN <<>>
    ELSE [i \in 1..items[Len(items)].weight |-> items[Len(items)]]
         \o Expand_newest_first(SubSeq(items, 1, Len(items) - 1))

\* list(self), by WeightedCollection.__iter__: each item weight-many times,
\* in the order of the items
RECURSIVE Expand(_)
Expand(items) ==
    IF Len(items) = 0 THEN <<>>
    ELSE Expand(SubSeq(items, 1, Len(items) - 1))
         \o [i \in 1..items[Len(items)].weight |-> items[Len(items)]]

\* WeightedCollection.__getitem__(n): list(self)[n % len(self)].value, for a
\* collection with len(self) >= 1 (n % 0 raises ZeroDivisionError)
GetItem(items, n) == Expand(items)[(n % Length(items)) + 1].value

(***************************************************************************)
(* config.py: Config, a mapping from section names to collections.         *)
(***************************************************************************)
\* the mapping after conf[section_name]: Config.__missing__ stores a new,
\* empty RandomString under a name that is no key
Lookup(conf, section_name) ==
    IF section_name \in DOMAIN conf THEN conf
    ELSE conf @@ (section_name :> <<>>)

\* a check that looks only at the sections the mapping already holds
check_section_stored(conf, name) ==
    IF name = None \/ name \notin DOMAIN conf
    THEN [raised |-> FALSE, conf |-> conf]
    ELSE [raised |-> Length(conf[name]) < 1, conf |-> conf]

\* check_section(conf, name): whether it raises, and conf after conf[name]
check_section(conf, name) ==
    IF name = None THEN [raised |-> FALSE, conf |-> conf]
    ELSE [raised |-> Length(Lookup(conf, name)[name]) < 1,
          conf |-> Lookup(conf, name)]

Cause(class, message, name) ==
    [class |-> class, message |-> message, name |-> name]

ConfigException(lineno, line, exc) ==
    [class |-> "ConfigException", lineno |-> lineno, line |-> line,
     cause |-> exc]

NoError == [class |-> "None"]

(***************************************************************************)
(* The source lines the model reads.                                       *)
(***************************************************************************)
Lines ==
    { <<>>,                                        \* a blank line
      <<"#", "c">>,                                \* # c
      <<"[", "a", "]">>,                           \* [a]
      <<"[", "b", "]">>,                           \* [b]
      <<"1", ":", " ", "x">>,                      \* 1: x
      <<"2", ":", " ", "y">>,                      \* 2: y
      <<"0", ":", " ", "y">>,                      \* 0: y
      <<"1", ":", " ", "<", "a", ">">>,            \* 1: <a>
      <<"1", ":", " ", "<", "b", ">">>,            \* 1: <b>
      <<"1", ":", "<", "a", ">", "<", "a", ">">>,  \* 1:<a><a>
      <<"x">> }                                    \* x

\* the entry points Why is called with
Sources == { <<"a">>, <<"b">>, <<"c">> }

(***************************************************************************)
(* State.                                                                  *)
(***************************************************************************)
VARIABLES
    text,             \* the lines of text.split("\n") read so far
    current_section,  \* from_string: the open section, or None
    config,           \* the Config: section name -> items
    references,       \* the keys of config.references
    pc,               \* "parse", "failed", "built" or "render"
    error,            \* the exception from_string raised
    source,           \* the argument of the last Why.__call__
    stack,            \* the __str__ calls in progress, outermost first
    result,           \* what the last Why.__call__ returned, or None
    raised,           \* the exception the last Why.__call__ raised, or ""
    ncalls            \* the number of calls of Why.__call__ so far

vars == <<text, current_section, config, references, pc, error,
          source, stack, result, raised, ncalls>>

renderVars == <<source, stack, result, raised, ncalls>>

\* enumerate(text.split("\n"), 1): the number and the text of the last line
lineno == Len(text)

line == text[Len(text)]

Init ==
    /\ text = <<>>
    /\ current_section = None
    /\ config = <<>>
    /\ references = {}
    /\ pc = "parse"
    /\ error = NoError
    /\ source = None
    /\ stack = <<>>
    /\ result = None
    /\ raised = ""
    /\ ncalls = 0

(***************************************************************************)
(* Config.from_string: one action for each branch of the loop body.        *)
(***************************************************************************)
\* the loop reads the next line l
Read(l) ==
    /\ pc = "parse"
    /\ Len(text) < MaxLines
    /\ text' = Append(text, l)
    /\ UNCHANGED renderVars

\* an exception that numbers the lines from 0
Fail_zero_based(l, exc) ==
    /\ pc' = "failed"
    /\ error' = ConfigException(Len(text), l, exc)

\* raise ConfigException(lineno, line, e)
Fail(l, exc) ==
    /\ pc' = "failed"
    /\ error' = ConfigException(Len(text) + 1, l, exc)

Continue ==
    /\ pc' = "parse"
    /\ error' = error

\* an empty line that checks the current section and leaves it open
BlankLine_keeps_section(l) ==
    /\ Read(l)
    /\ IsBlank(l)
    /\ LET c == check_section(config, current_section)
       IN  /\ config' = c.conf
           /\ IF c.raised
              THEN Fail(l, Cause("ValueError", "Empty collection",
                                 current_section))
              ELSE Continue
    /\ UNCHANGED <<current_section, references>>

\* result is None: an empty line clears the current section
BlankLine(l) ==
    /\ Read(l)
    /\ IsBlank(l)
    /\ LET c == check_section(config, current_section)
       IN  /\ config' = c.conf
           /\ IF c.raised
              THEN /\ Fail(l, Cause("ValueError", "Empty collection",
                                    current_section))
                   /\ UNCHANGED current_section
              ELSE /\ Continue
                   /\ current_section' = None
    /\ UNCHANGED references

\* parse_config: CONFIG_LINE.parseString(line) raises
MalformedLine(l) ==
    /\ Read(l)
    /\ ~IsBlank(l)
    /\ ~CONFIG_LINE(l).matched
    /\ Fail(l, Cause("ParseException", "", None))
    /\ UNCHANGED <<current_section, config, references>>

\* COMMENT in result
CommentLine(l) ==
    /\ Read(l)
    /\ ~IsBlank(l)
    /\ CONFIG_LINE(l).kind = "comment"
    /\ Continue
    /\ UNCHANGED <<current_section, config, references>>

\* a header that starts a new collection under its name
SectionLine_fresh(l) ==
    /\ Read(l)
    /\ ~IsBlank(l)
    /\ CONFIG_LINE(l).kind = "section"
    /\ LET c == check_section(config, current_section)
       IN  IF c.raised
           THEN /\ Fail(l, Cause("ValueError", "Empty collection",
                                 current_section))
                /\ config' = c.conf
                /\ UNCHANGED current_section
           ELSE /\ Continue
                /\ config' = [k \in DOMAIN c.conf |->
                                 IF k = CONFIG_LINE(l).section THEN <<>>
                                 ELSE c.conf[k]]
                /\ current_section' = CONFIG_LINE(l).section
    /\ UNCHANGED references

\* SECTION in result
SectionLine(l) ==
    /\ Read(l)
    /\ ~IsBlank(l)
    /\ CONFIG_LINE(l).kind = "section"
    /\ LET c == check_section(config, current_section)
       IN  /\ config' = c.conf
           /\ IF c.raised
              THEN /\ Fail(l, Cause("ValueError", "Empty collection",
                                    current_section))
                   /\ UNCHANGED current_section
              ELSE /\ Continue
                   /\ current_section' = CONFIG_LINE(l).section
    /\ UNCHANGED references

\* a value branch that resolves the references of a value where it is used
ValueLine_eager(l) ==
    /\ Read(l)
    /\ ~IsBlank(l)
    /\ CONFIG_LINE(l).kind = "value"
    /\ LET r == CONFIG_LINE(l)
           f == Format(r.value)
       IN  IF current_section = None
           THEN /\ Fail(l, Cause("ValueError", "Item outside section", None))
                /\ UNCHANGED <<config, references>>
           ELSE /\ references' = references \cup f.looked_up
                /\ IF f.raised \/ ~(f.looked_up \subseteq DOMAIN config)
                   THEN /\ Fail(l, Cause("KeyError", "", None))
                        /\ UNCHANGED config
                   ELSE /\ Continue
                        /\ config' =
                              [Lookup(config, current_section)
                                 EXCEPT ![current_section] =
                                     add(@, f.value, r.weight)]
    /\ UNCHANGED current_section

\* VALUE and WEIGHT in result
ValueLine(l) ==
    /\ Read(l)
    /\ ~IsBlank(l)
    /\ CONFIG_LINE(l).kind = "value"
    /\ LET r == CONFIG_LINE(l)
           f == Format(r.value)
       IN  IF current_section = None
           THEN /\ Fail(l, Cause("ValueError", "Item outside section", None))
                /\ UNCHANGED <<config, references>>
           ELSE /\ references' = references \cup f.looked_up
                /\ IF f.raised
                   THEN /\ Fail(l, Cause(f.exc, "", None))
                        /\ UNCHANGED config
                   ELSE /\ Continue
                        /\ config' =
                              [Lookup(config, current_section)
                                 EXCEPT ![current_section] =
                                     add(@, f.value, r.weight)]
    /\ UNCHANGED current_section

\* after the loop: a reference to a name that is no key raises a ValueError
MissingReference(ref) ==
    /\ pc = "parse"
    /\ Len(text) >= 1
    /\ ref \in references
    /\ ref \notin DOMAIN config
    /\ pc' = "failed"
    /\ error' = [class |-> "ValueError",
                 message |-> "Reference to missing collection",
                 name |-> ref]
    /\ UNCHANGED <<text, current_section, config, references>>
    /\ UNCHANGED renderVars

\* after the loop: return config
Return ==
    /\ pc = "parse"
    /\ Len(text) >= 1
    /\ \A ref \in references : ref \in DOMAIN config
    /\ pc' = "built"
    /\ UNCHANGED <<text, current_section, config, references, error>>
    /\ UNCHANGED renderVars

(***************************************************************************)
(* Rendering.  The stack holds one frame for each RandomString.__str__ in  *)
(* progress: "choice" before random.choice, "Reference" while the drawn    *)
(* Reference is stringified, "ReferenceFormat" while the drawn template is *)
(* formatted (pos: the token format is at, out: the text built so far,     *)
(* shown: the field index and the text of every field substituted so far,  *)
(* draws: the number of str(substitution) calls format has made).          *)
(***************************************************************************)
Frame(key, mode, tokens, subs) ==
    [key |-> key, mode |-> mode, tokens |-> tokens, subs |-> subs,
     pos |-> 1, out |-> <<>>, shown |-> <<>>, draws |-> 0]

Pop(stk) == SubSeq(stk, 1, Len(stk) - 1)

Top(stk) == stk[Len(stk)]

Running(conf, stk) ==
    [status |-> "running", config |-> conf, stack |-> stk,
     value |-> <<>>, exc |-> ""]

Done(conf, value) ==
    [status |-> "done", config |-> conf, stack |-> <<>>,
     value |-> value, exc |-> ""]

Raise(conf, exc) ==
    [status |-> "raise", config |-> conf, stack |-> <<>>,
     value |-> <<>>, exc |-> exc]

\* Reference.__repr__: "<Reference '{!s}'>".format(self.key)
ReferenceRepr(key) ==
    <<"<", "R", "e", "f", "e", "r", "e", "n", "c", "e", " ", "'">>
    \o key \o <<"'", ">">>

\* a str(conf[key]) that refuses a key whose __str__ is already in progress
Enter_guarded(conf, stk, key) ==
    IF \E i \in 1..Len(stk) : stk[i].key = key
    THEN Raise(Lookup(conf, key), "ValueError")
    ELSE IF Len(stk) >= MaxDepth THEN Raise(Lookup(conf, key), "RuntimeError")
    ELSE IF Len(Expand(Lookup(conf, key)[key])) = 0
         THEN Raise(Lookup(conf, key), "IndexError")
    ELSE Running(Lookup(conf, key),
                 Append(stk, Frame(key, "choice", <<>>, <<>>)))

\* str(conf[key]) is called under the calls of stk: the lookup (which
\* stores an empty collection under a missing key), the call (which fails
\* at the recursion limit) and list(self) for random.choice (which fails on
\* an empty list)
Enter(conf, stk, key) ==
    IF Len(stk) >= MaxDepth THEN Raise(Lookup(conf, key), "RuntimeError")
    ELSE IF Len(Expand(Lookup(conf, key)[key])) = 0
         THEN Raise(Lookup(conf, key), "IndexError")
    ELSE Running(Lookup(conf, key),
                 Append(stk, Frame(key, "choice", <<>>, <<>>)))

\* a format that computes one text for each distinct reference and shows it
\* at every occurrence
RECURSIVE Advance_cached(_, _)
Advance_cached(conf, stk) ==
    LET f == Top(stk)
        t == f.tokens[f.pos]
        put(g) == [stk EXCEPT ![Len(stk)] = g]
        seen == { i \in 1..Len(f.shown) : f.shown[i].index = t.index }
    IN  IF f.pos > Len(f.tokens) THEN Running(conf, stk)
        ELSE IF ~t.field
             THEN Advance_cached(conf,
                     put([f EXCEPT !.pos = @ + 1,
                                   !.out = Append(@, t.char)]))
        ELSE IF seen # {}
             THEN Advance_cached(conf,
                     put([f EXCEPT !.pos = @ + 1,
                                   !.out = @ \o f.shown[CHOOSE i \in seen : TRUE].text,
                                   !.shown = Append(@, f.shown[CHOOSE i \in seen : TRUE])]))
        ELSE Enter(conf, put([f EXCEPT !.draws = @ + 1]),
                   f.subs[t.index + 1])

\* ReferenceFormat.__str__ goes on from token pos of the top frame: literal
\* characters and repr fields are appended, a str field calls
\* str(substitutions[index])
RECURSIVE Advance(_, _)
Advance(conf, stk) ==
    LET f == Top(stk)
        t == f.tokens[f.pos]
        put(g) == [stk EXCEPT ![Len(stk)] = g]
    IN  IF f.pos > Len(f.tokens) THEN Running(conf, stk)
        ELSE IF ~t.field
             THEN Advance(conf, put([f EXCEPT !.pos = @ + 1,
                                              !.out = Append(@, t.char)]))
        ELSE IF t.conversion = "r"
             THEN Advance(conf,
                     put([f EXCEPT !.pos = @ + 1,
                                   !.out = @ \o ReferenceRepr(
                                               f.subs[t.index + 1])]))
        ELSE Enter(conf, put([f EXCEPT !.draws = @ + 1]),
                   f.subs[t.index + 1])

\* a __str__ under the calls of stk returns value
RECURSIVE Deliver(_, _, _)
Deliver(conf, stk, value) ==
    IF Len(stk) = 0 THEN Done(conf, value)
    ELSE IF Top(stk).mode = "Reference"
         THEN Deliver(conf, Pop(stk), value)
    ELSE LET f == Top(stk)
         IN  Advance(conf,
                 [stk EXCEPT ![Len(stk)] =
                     [f EXCEPT !.pos = @ + 1,
                               !.out = @ \o value,
                               !.shown = Append(@,
                                   [index |-> f.tokens[f.pos].index,
                                    text |-> value])]])

\* RandomString.__str__ with random.choice taking slot n of list(self)
Choose(conf, stk, n) ==
    LET key  == Top(stk).key
        item == Expand(conf[key])[n].value
    IN  IF item.kind = "str" THEN Deliver(conf, Pop(stk), item.text)
        ELSE IF item.kind = "Reference"
             THEN Enter(conf,
                        [stk EXCEPT ![Len(stk)] =
                            Frame(key, "Reference", <<>>, item.refs)],
                        item.refs[1])
        ELSE Advance(conf,
                 [stk EXCEPT ![Len(stk)] =
                     Frame(key, "ReferenceFormat",
                           ParseFormat(item.text, Len(item.refs)).tokens,
                           item.refs)])

Upper(c) ==
    CASE c = "a" -> "A" [] c = "b" -> "B" [] c = "c" -> "C"
      [] c = "s" -> "S" [] c = "x" -> "X" [] c = "y" -> "Y"
      [] OTHER -> c

\* Why.__call__ after str(self.data[source]): reason[0].upper() + reason[1:]
Capitalize(o) ==
    IF o.status # "done" THEN o
    ELSE IF Len(o.value) = 0 THEN Raise(o.config, "IndexError")
    ELSE [o EXCEPT !.value = <<Upper(o.value[1])>> \o Tail(o.value)]

\* the state after a step of a render with outcome o
Outcome(o) ==
    /\ config' = o.config
    /\ stack' = o.stack
    /\ pc' = IF o.status = "running" THEN "render" ELSE "built"
    /\ result' = IF o.status = "done" THEN o.value ELSE None
    /\ raised' = IF o.status = "raise" THEN o.exc ELSE ""
    /\ UNCHANGED <<text, current_section, references, error>>

\* Why.__call__(source), up to the first random.choice
Call(s) ==
    /\ pc = "built"
    /\ ncalls < MaxCalls
    /\ ncalls' = ncalls + 1
    /\ source' = s
    /\ Outcome(Capitalize(Enter(config, <<>>, s)))

\* random.choice(list(self)) takes slot n, up to the next random.choice or
\* the end of a ReferenceFormat.__str__
Draw(n) ==
    /\ pc = "render"
    /\ Top(stack).mode = "choice"
    /\ n \in 1..Len(Expand(config[Top(stack).key]))
    /\ Outcome(Capitalize(Choose(config, stack, n)))
    /\ UNCHANGED <<source, ncalls>>

\* ReferenceFormat.__str__ returns the formatted text
FormatReturn ==
    /\ pc = "render"
    /\ Top(stack).mode = "ReferenceFormat"
    /\ Top(stack).pos > Len(Top(stack).tokens)
    /\ Outcome(Capitalize(Deliver(config, Pop(stack), Top(stack).out)))
    /\ UNCHANGED <<source, ncalls>>

\* the widest weight-expanded pool a model line can build
MaxPool == 2 * MaxLines

Next ==
    \/ \E l \in Lines : BlankLine(l)
    \/ \E l \in Lines : MalformedLine(l)
    \/ \E l \in Lines : CommentLine(l)
    \/ \E l \in Lines : SectionLine(l)
    \/ \E l \in Lines : ValueLine(l)
    \/ \E ref \in references : MissingReference(ref)
    \/ Return
    \/ \E s \in Sources : Call(s)
    \/ \E n \in 1..MaxPool : Draw(n)
    \/ FormatReturn

Spec == Init /\ [][Next]_vars

(***************************************************************************)
(* A second set of source lines: values with braces, a header with text    *)
(* after its "]", and a weight with nothing after its colon.               *)
(***************************************************************************)
EdgeLines ==
    { <<>>,                                        \* a blank line
      <<"#", "c">>,                                \* # c
      <<"[", "a", "]">>,                           \* [a]
      <<"[", "b", "]">>,                           \* [b]
      <<"1", ":", " ", "x">>,                      \* 1: x
      <<"1", ":", " ", "<", "a", ">">>,            \* 1: <a>
      <<"1", ":", "x", "<", "a", ">">>,            \* 1:x<a>
      <<"1", ":", "{", "<", "a", ">", "}">>,       \* 1:{<a>}
      <<"[", "a", "]", "x">>,                      \* [a]x
      <<"1", ":">> }                               \* 1:

NextEdge ==
    \/ \E l \in EdgeLines : BlankLine(l)
    \/ \E l \in EdgeLines : MalformedLine(l)
    \/ \E l \in EdgeLines : CommentLine(l)
    \/ \E l \in EdgeLines : SectionLine(l)
    \/ \E l \in EdgeLines : ValueLine(l)
    \/ \E ref \in references : MissingReference(ref)
    \/ Return
    \/ \E s \in Sources : Call(s)
    \/ \E n \in 1..MaxPool : Draw(n)
    \/ FormatReturn

SpecEdge == Init /\ [][NextEdge]_vars

(***************************************************************************)
(* What the source text says, read off the lines themselves.               *)
(***************************************************************************)
\* a line that is exactly [name]
IsHeader(l) ==
    /\ Len(l) >= 3
    /\ l[1] = "[" /\ l[Len(l)] = "]"
    /\ \A i \in 2..(Len(l) - 1) : IsNameChar(l[i])

IsComment(l) == Len(l) >= 1 /\ l[1] = "#"

\* the section that is open after the lines, None if none is
RECURSIVE OpenSection(_)
OpenSection(lines) ==
    IF Len(lines) = 0 THEN None
    ELSE LET l == lines[Len(lines)]
         IN  IF IsBlank(l) THEN None
             ELSE IF CONFIG_LINE(l).kind = "section"
                  THEN CONFIG_LINE(l).section
             ELSE OpenSection(SubSeq(lines, 1, Len(lines) - 1))

\* the entries the lines write under the headers of name, in source order
RECURSIVE Written(_, _)
Written(lines, name) ==
    IF Len(lines) = 0 THEN <<>>
    ELSE LET l == lines[Len(lines)]
             before == SubSeq(lines, 1, Len(lines) - 1)
         IN  IF /\ ~IsBlank(l)
                /\ CONFIG_LINE(l).kind = "value"
                /\ OpenSection(before) = name
             THEN Append(Written(before, name),
                         WeightedItem(Format(CONFIG_LINE(l).value).value,
                                      CONFIG_LINE(l).weight))
             ELSE Written(before, name)

\* the names the headers of the lines declare
Declared(lines) ==
    { CONFIG_LINE(lines[i]).section :
        i \in { j \in 1..Len(lines) : /\ ~IsBlank(lines[j])
                                      /\ CONFIG_LINE(lines[j]).kind = "section" } }

\* the names the <name> markers of the value lines use
Used(lines) ==
    UNION { { FindAll(CONFIG_LINE(lines[i]).value, 1)[k] :
                k \in 1..Len(FindAll(CONFIG_LINE(lines[i]).value, 1)) } :
            i \in { j \in 1..Len(lines) : /\ ~IsBlank(lines[j])
                                          /\ CONFIG_LINE(lines[j]).kind = "value" } }

\* the names the values stored in conf refer to
MarkersOf(conf) ==
    UNION { { conf[k][i].value.refs[j] : j \in 1..Len(conf[k][i].value.refs) } :
            <<k, i>> \in { <<kk, ii>> \in (DOMAIN conf) \X (1..MaxLines) :
                             ii <= Len(conf[kk]) } }

\* an entry value of the grammar names a collection the grammar has not
Dangling == \E name \in MarkersOf(config) : name \notin DOMAIN config

\* the items of a collection, none for a name that is no key
ItemsOf(conf, name) == IF name \in DOMAIN conf THEN conf[name] ELSE <<>>

\* from_string has returned the grammar, which no render has used yet
Returned == pc = "built" /\ ncalls = 0

\* from_string has left its loop without a line-level error and has raised
Rejected == pc = "failed" /\ error.class = "ValueError"

(***************************************************************************)
(* Claims.                                                                 *)
(***************************************************************************)
\* the frames of the stack that format a template
FormatFrames == { i \in 1..Len(stack) : stack[i].mode = "ReferenceFormat" }

\* the number of str fields among the first n tokens
StrFields(tokens, n) ==
    Cardinality({ i \in 1..n : /\ i <= Len(tokens)
                               /\ tokens[i].field
                               /\ tokens[i].conversion = "s" })

\* C1 as stated: within one render of one template value, all the textual
\* occurrences of one reference show the same drawn string.
C1_OccurrencesShowSameString ==
    \A i \in FormatFrames :
        \A m, n \in 1..Len(stack[i].shown) :
            stack[i].shown[m].index = stack[i].shown[n].index
                => stack[i].shown[m].text = stack[i].shown[n].text

\* C1 as amended: one render of a template value draws from the referenced
\* collection once for every textual occurrence of a reference: format has
\* called str(substitution) once for each field it has reached, and has
\* shown one text for each field it has passed.
C1_DrawForEveryOccurrence ==
    \A i \in FormatFrames :
        /\ stack[i].draws = StrFields(stack[i].tokens, stack[i].pos)
        /\ Len(stack[i].shown) = StrFields(stack[i].tokens, stack[i].pos - 1)

\* a template has shown two different strings for one reference
C1_OccurrencesDiffer ==
    \E i \in FormatFrames :
        \E m, n \in 1..Len(stack[i].shown) :
            /\ stack[i].shown[m].index = stack[i].shown[n].index
            /\ stack[i].shown[m].text # stack[i].shown[n].text

C3_EndOfInputClosesSection ==
    Returned
        => (current_section = None
            \/ Len(ItemsOf(config, current_section)) >= 1)

\* C4: every entry of a grammar returned by a build has weight >= 1: a
\* line of weight 0 fails the build.  Stated for the texts whose last
\* section a blank line has closed, where the validation of C3 has run.
C4_WeightsPositive ==
    (Returned /\ current_section = None)
        => \A k \in DOMAIN config :
               \A i \in 1..Len(config[k]) : config[k][i].weight >= 1

\* C5: rendering never mutates the grammar: no step of a render, of an
\* entry point that exists or not, changes the collections or the registry.
C5_RenderKeepsGrammar ==
    [][(pc \in {"built", "render"})
           => (config' = config /\ references' = references)]_vars

\* C6: a render of an entry point that is no collection of the grammar
\* fails with a KeyError, returns no string and leaves the grammar as built.
C6_MissingEntryPointRaisesKeyError ==
    [][(ncalls' = ncalls + 1 /\ source' \notin DOMAIN config)
           => (pc' = "built" /\ raised' = "KeyError" /\ result' = None)]_vars

\* C7: every collection of a grammar returned by a build has a
\* weight-expanded pool of length >= 1.
C7_PoolsNotEmpty ==
    Returned
        => \A k \in DOMAIN config : Len(Expand(config[k])) >= 1

\* the name a [name] line declares
HeaderName(l) == SubSeq(l, 2, Len(l) - 1)

\* C8: a blank line or a section header that closes a section without
\* entries fails the build with a ConfigException of that line, whose cause
\* names the empty section.
C8_EmptySectionRejected ==
    [][(/\ pc = "parse"
        /\ text' # text
        /\ current_section # None
        /\ Len(ItemsOf(config, current_section)) = 0
        /\ IsBlank(line') \/ IsHeader(line'))
           => (/\ pc' = "failed"
               /\ error' = ConfigException(lineno', line',
                               Cause("ValueError", "Empty collection",
                                     current_section)))]_vars

\* a header, a comment and a second header: the build has failed on the
\* second header, naming the section of the first
C8_EmptySectionClosedByHeader ==
    /\ pc = "failed"
    /\ error.class = "ConfigException"
    /\ error.cause.message = "Empty collection"
    /\ lineno >= 3
    /\ error.lineno = lineno
    /\ IsHeader(line)
    /\ IsComment(text[lineno - 1])
    /\ IsHeader(text[lineno - 2])
    /\ error.cause.name = HeaderName(text[lineno - 2])

\* C9: a section name that reappears re-opens the same collection: while
\* the text is read and when the build returns, the entries of every
\* collection are the entries the text writes under all the headers of its
\* name, in source order; and a
\* header of a name that already has entries is accepted, opens that name
\* and changes no collection, whenever the section it closes is not empty.
C9_ReopenAppends ==
    /\ [](pc = "parse" \/ Returned
            => \A name \in Declared(text) \cup DOMAIN config :
                   ItemsOf(config, name) = Written(text, name))
    /\ [][(/\ pc = "parse"
           /\ text' # text
           /\ IsHeader(line')
           /\ Len(ItemsOf(config, HeaderName(line'))) >= 1
           /\ \/ current_section = None
              \/ Length(ItemsOf(config, current_section)) >= 1)
              => (/\ pc' = "parse"
                  /\ current_section' = HeaderName(line')
                  /\ config' = config)]_vars

\* a grammar is built whose text has two headers of one name, with an entry
\* under each of them
C9_Reopened ==
    /\ pc = "built"
    /\ \E i, j \in 1..Len(text) :
          /\ i < j
          /\ IsHeader(text[i])
          /\ text[j] = text[i]
          /\ Len(Written(SubSeq(text, 1, j), HeaderName(text[i]))) >= 1
          /\ Len(config[HeaderName(text[i])])
                 > Len(Written(SubSeq(text, 1, j), HeaderName(text[i])))

\* the names that have at least one entry under their headers
DeclaredWithEntry(lines) ==
    { name \in Declared(lines) : Len(Written(lines, name)) >= 1 }

\* C10: the existence of a referenced name is checked only after all lines
\* are consumed: a well-formed value line in an open section is accepted
\* whatever names it uses, and once the loop is done without a line-level
\* error the build returns exactly when every name used is declared with an
\* entry somewhere in the text, before or after its use.
C10_ForwardReference ==
    /\ [][(/\ pc = "parse"
           /\ text' # text
           /\ ~IsBlank(line')
           /\ CONFIG_LINE(line').kind = "value"
           /\ current_section # None
           /\ ~Format(CONFIG_LINE(line').value).raised)
              => pc' = "parse"]_vars
    /\ []((Returned \/ Rejected)
            => (Returned <=> Used(text) \subseteq DeclaredWithEntry(text)))

\* a grammar is built from a text that uses a name in a value line before
\* the first header of that name
C10_ForwardReferenceBuilt ==
    /\ pc = "built"
    /\ \E i, j \in 1..Len(text) :
          /\ i < j
          /\ ~IsBlank(text[i])
          /\ CONFIG_LINE(text[i]).kind = "value"
          /\ IsHeader(text[j])
          /\ HeaderName(text[j]) \in Used(<<text[i]>>)
          /\ HeaderName(text[j]) \notin Declared(SubSeq(text, 1, j - 1))

(***************************************************************************)
(* The reference graph of a grammar.                                       *)
(***************************************************************************)
\* the names the values of collection k refer to
RefsOf(conf, k) ==
    IF k \notin DOMAIN conf THEN {}
    ELSE UNION { { conf[k][i].value.refs[j] :
                     j \in 1..Len(conf[k][i].value.refs) } :
                 i \in 1..Len(conf[k]) }

\* names together with what they reach in at most n more steps
RECURSIVE ReachableFrom(_, _, _)
ReachableFrom(conf, names, n) ==
    IF n = 0 THEN names
    ELSE ReachableFrom(conf,
             names \cup UNION { RefsOf(conf, k) : k \in names }, n - 1)

\* the names a render of k can come to str(), k itself only through a cycle
Reachable(conf, k) ==
    ReachableFrom(conf, RefsOf(conf, k), Cardinality(DOMAIN conf))

\* no name a render of k can come to refers, directly or not, to itself
Acyclic(conf, k) ==
    \A j \in {k} \cup Reachable(conf, k) : j \notin Reachable(conf, j)

\* the value texts the lines write under the headers of name, as written
RECURSIVE RawValues(_, _)
RawValues(lines, name) ==
    IF Len(lines) = 0 THEN <<>>
    ELSE LET l == lines[Len(lines)]
             before == SubSeq(lines, 1, Len(lines) - 1)
         IN  IF /\ ~IsBlank(l)
                /\ CONFIG_LINE(l).kind = "value"
                /\ OpenSection(before) = name
             THEN Append(RawValues(before, name), CONFIG_LINE(l).value)
             ELSE RawValues(before, name)

\* every section of the lines has exactly one entry
SingleEntries(lines) ==
    \A name \in Declared(lines) : Len(RawValues(lines, name)) = 1

\* the text s from index i on, with every <name> marker replaced by the
\* expansion of the one value of name and every other character kept
RECURSIVE Expansion(_, _, _)
Expansion(lines, s, i) ==
    IF i > Len(s) THEN <<>>
    ELSE LET k == NameEnd(s, i + 1)
         IN  IF s[i] = "<" /\ k > i + 1 /\ k <= Len(s) /\ s[k] = ">"
             THEN Expansion(lines,
                            RawValues(lines, SubSeq(s, i + 1, k - 1))[1], 1)
                  \o Expansion(lines, s, k + 1)
             ELSE <<s[i]>> \o Expansion(lines, s, i + 1)

\* C11: in a grammar where every collection has exactly one entry, a render
\* of a name is the recursive expansion of its value: the value text with
\* every <x> marker replaced by the render of x and every other character
\* kept as written, whatever the literal text is (Why.__call__ then puts
\* the first character in upper case).
C11_RenderIsExpansion ==
    (/\ pc = "built" /\ ncalls >= 1 /\ raised = ""
     /\ SingleEntries(text)
     /\ Acyclic(config, source))
        => LET e == Expansion(text, Marker(source), 1)
           IN  result = <<Upper(e[1])>> \o Tail(e)

\* the entry that owns slot p (from 1) of the pool: the weights of the
\* entries before it sum to less than p, and with its own to at least p
SlotOwner(items, p) ==
    CHOOSE i \in 1..Len(items) :
        /\ Length(SubSeq(items, 1, i - 1)) < p
        /\ p <= Length(SubSeq(items, 1, i))

\* C12: the weight-expanded pool of a collection holds each entry
\* weight-many times, in insertion order; len() of the collection is the
\* length of the pool; a draw has a slot of the pool to pick; and pool[n],
\* for any integer n, is the value of the slot at index n mod len(pool).
C12_PoolIsWeightExpansion ==
    /\ (pc = "parse" \/ Returned)
          => \A k \in DOMAIN config :
                 LET items == config[k]
                     pool  == Expand(items)
                 IN  /\ Len(pool) = Length(items)
                     /\ \A p \in 1..Len(pool) :
                            pool[p] = items[SlotOwner(items, p)]
                     /\ Len(pool) >= 1
                          => \A n \in (0 - MaxPool)..(2 * MaxPool) :
                                 GetItem(items, n) =
                                     items[SlotOwner(items,
                                               (n % Len(pool)) + 1)].value
    /\ (pc = "render" /\ Top(stack).mode = "choice")
          => Len(Expand(config[Top(stack).key])) >= 1

\* a grammar is built with a collection of an entry of weight 1 and a later
\* entry of weight 2: the pool has three slots, and the indices 3, 5 and -1
\* wrap around to the first, the last and the last slot
C12_WeightedPoolBuilt ==
    /\ Returned
    /\ \E k \in DOMAIN config :
          /\ Len(config[k]) = 2
          /\ config[k][1].weight = 1
          /\ config[k][2].weight = 2
          /\ config[k][1].value # config[k][2].value
          /\ Len(Expand(config[k])) = 3
          /\ GetItem(config[k], 3) = config[k][1].value
          /\ GetItem(config[k], 5) = config[k][2].value
          /\ GetItem(config[k], 0 - 1) = config[k][2].value

\* line i of the lines is in error after the lines before it: it is
\* malformed, it closes a section whose weights sum to less than 1, or it
\* is a value line outside a section or with a value format() rejects
ErrorAt(lines, i) ==
    LET l      == lines[i]
        before == SubSeq(lines, 1, i - 1)
        open   == OpenSection(before)
        closesEmpty == open # None /\ Length(Written(before, open)) < 1
    IN  IF IsBlank(l) THEN closesEmpty
        ELSE IF ~CONFIG_LINE(l).matched THEN TRUE
        ELSE IF CONFIG_LINE(l).kind = "section" THEN closesEmpty
        ELSE IF CONFIG_LINE(l).kind = "value"
             THEN open = None \/ Format(CONFIG_LINE(l).value).raised
        ELSE FALSE

\* C14: when a build fails on a line, the ConfigException carries the
\* 1-based number and the raw text of the first line of the text that is in
\* error; every line before it was accepted (none of them is in error), and
\* no line after it is read (it is the last line read).
C14_FirstErrorLineReported ==
    /\ (pc = "parse" \/ Returned \/ Rejected)
          => \A i \in 1..Len(text) : ~ErrorAt(text, i)
    /\ (pc = "failed" /\ error.class = "ConfigException")
          => /\ error.lineno = Len(text)
             /\ error.lineno >= 1
             /\ error.line = text[error.lineno]
             /\ ErrorAt(text, error.lineno)
             /\ \A i \in 1..(error.lineno - 1) : ~ErrorAt(text, i)

\* the build has failed on a malformed third line, after two accepted lines
C14_ThirdLineMalformed ==
    /\ pc = "failed"
    /\ error.class = "ConfigException"
    /\ error.lineno = 3
    /\ error.line = <<"x">>
    /\ error.cause.class = "ParseException"
    /\ CONFIG_LINE(text[1]).kind = "section"
    /\ CONFIG_LINE(text[2]).kind = "value"

\* a [name] header followed by more text that is not whitespace
HeaderWithTrailing(l) ==
    \E p \in 3..(Len(l) - 1) :
        /\ IsHeader(SubSeq(l, 1, p))
        /\ ~IsBlank(SubSeq(l, p + 1, Len(l)))

\* C15: a line is a section header only if it is [name] with nothing but
\* whitespace around it: a line with more text after the "]" is malformed,
\* so the build fails on it with a syntax error and it opens no section.
C15_HeaderAloneOnLine ==
    \A i \in 1..Len(text) :
        HeaderWithTrailing(text[i])
            => /\ pc = "failed"
               /\ i = Len(text)
               /\ error.class = "ConfigException"
               /\ error.cause.class = "ParseException"
               /\ current_section = OpenSection(SubSeq(text, 1, i - 1))

\* C16: a weighted entry is accepted only while a section is open.  While
\* the text is read, the open section is the one of the last header with no
\* blank line after it; and a value line that comes before any header, or
\* after a blank line with no header since, fails the build with an 'Item
\* outside section' error of that line, is added to no collection and
\* registers no reference.
C16_ItemOutsideSection ==
    /\ [](pc = "parse" => current_section = OpenSection(text))
    /\ [][(/\ pc = "parse"
           /\ text' # text
           /\ ~IsBlank(line')
           /\ VALUE_LINE(line').matched
           /\ OpenSection(text) = None)
              => (/\ pc' = "failed"
                  /\ error' = ConfigException(lineno', line',
                                  Cause("ValueError", "Item outside section",
                                        None))
                  /\ config' = config
                  /\ references' = references)]_vars

\* a section with an entry, a blank line, and a value line with a marker:
\* the build has failed on the value line, with nothing registered
C16_ItemAfterBlankLine ==
    /\ pc = "failed"
    /\ error.class = "ConfigException"
    /\ error.cause.message = "Item outside section"
    /\ lineno >= 4
    /\ error.lineno = lineno
    /\ IsBlank(text[lineno - 1])
    /\ Used(<<line>>) # {}
    /\ references = {}
    /\ DOMAIN config = Declared(text)

\* the only entry of collection A is the bare reference <B>
OnlyRefersTo(conf, A, B) ==
    /\ A \in DOMAIN conf
    /\ Len(conf[A]) = 1
    /\ conf[A][1].weight >= 1
    /\ conf[A][1].value = Reference(B)

\* A and some B (A itself, for a self-reference) only refer to each other
Cycle(conf, A) ==
    \E B \in DOMAIN conf : OnlyRefersTo(conf, A, B) /\ OnlyRefersTo(conf, B, A)

\* C17: there is no cycle guard.  A grammar where A's only entry is <B> and
\* B's only entry is <A> (or A's only entry is <A>) is not rejected for it
\* (a build that fails after the last line fails on a registered name that
\* is no collection); and a render of A yields no string: every draw nests one
\* __str__ deeper or hits the recursion limit, and the call ends with the
\* RuntimeError of the limit.
C17_CycleNeverYieldsString ==
    /\ Rejected => error.name \in references \ DOMAIN config
    /\ (pc = "built" /\ ncalls >= 1 /\ Cycle(config, source))
          => (result = None /\ raised = "RuntimeError")
    /\ (pc = "render" /\ Cycle(config, source))
          => /\ Top(stack).mode = "choice"
             /\ Len(stack) <= MaxDepth
             /\ \A n \in 1..Len(Expand(config[Top(stack).key])) :
                    LET o == Choose(config, stack, n)
                    IN  \/ /\ o.status = "running"
                           /\ Len(o.stack) = Len(stack) + 1
                        \/ /\ o.status = "raise"
                           /\ o.exc = "RuntimeError"
                           /\ Len(stack) = MaxDepth

\* a grammar of two collections that only refer to each other is built, and
\* the render of one of them has ended at the recursion limit
C17_TwoCycleRendered ==
    /\ pc = "built"
    /\ ncalls >= 1
    /\ raised = "RuntimeError"
    /\ \E B \in DOMAIN config :
          /\ B # source
          /\ OnlyRefersTo(config, source, B)
          /\ OnlyRefersTo(config, B, source)

\* C18: a render from an entry point that exists, whose reachable reference
\* graph has no cycle, ends with a string; and the draws in progress never
\* nest deeper than the number of collections the render can come to.
C18_AcyclicRenderYieldsString ==
    /\ (/\ pc = "built" /\ ncalls >= 1
        /\ source \in DOMAIN config
        /\ Len(config[source]) >= 1
        /\ Acyclic(config, source))
          => (raised = "" /\ Len(result) >= 1)
    /\ (pc = "render" /\ Acyclic(config, source))
          => Len(stack) <= Cardinality({source} \cup Reachable(config, source))

\* C19: every string a render ends with has at least one character, so
\* reason[0] in Why.__call__ never fails on an empty string: every stored
\* value text has at least one character, every reference a template has
\* shown is not empty, and every __str__ that returns to Why.__call__
\* returns a string that is not empty.
C19_RenderedStringNotEmpty ==
    /\ \A k \in DOMAIN config :
          \A i \in 1..Len(config[k]) :
              config[k][i].value.kind # "Reference"
                  => Len(config[k][i].value.text) >= 1
    /\ \A i \in FormatFrames :
          \A m \in 1..Len(stack[i].shown) : Len(stack[i].shown[m].text) >= 1
    /\ (pc = "render" /\ Top(stack).mode = "choice")
          => \A n \in 1..Len(Expand(config[Top(stack).key])) :
                 LET o == Choose(config, stack, n)
                 IN  o.status = "done" => Len(o.value) >= 1
    /\ (/\ pc = "render"
        /\ Top(stack).mode = "ReferenceFormat"
        /\ Top(stack).pos > Len(Top(stack).tokens))
          => LET o == Deliver(config, Pop(stack), Top(stack).out)
             IN  o.status = "done" => Len(o.value) >= 1
    /\ (pc = "built" /\ ncalls >= 1 /\ raised = "") => Len(result) >= 1

\* a render of a template with a reference has ended with a string, of
\* which Why.__call__ has put the first character in upper case
C19_TemplateRendered ==
    /\ pc = "built"
    /\ ncalls >= 1
    /\ raised = ""
    /\ Len(config[source]) = 1
    /\ config[source][1].value.kind = "ReferenceFormat"
    /\ Len(result) >= 2
    /\ result[1] = "X"

=============================================================================
